---- MODULE Spec2Model ----
(***************************************************************************)
(* Model of the OCR pipeline orchestrator (modules/ocr/processor.py):      *)
(* OCRProcessor.process_fast, OCRProcessor.process_thinking, log_ocr_run,  *)
(* and of the two-pass Qwen3VLProvider.structure_blocks it calls           *)
(* (modules/llm/providers/qwen3_vl.py).                                    *)
(*                                                                         *)
(* Texts are sequences of tokens (<<>> is the empty string); confidences   *)
(* are exact rationals [n, d] meaning n / (d * ConfOne).                   *)
(***************************************************************************)
EXTENDS Integers, Sequences, FiniteSets, TLC

\* ---------------------------------------------------------------- bounds
MaxBlocks == 2      \* most blocks extract_layout_blocks returns
MaxRuns == 2        \* runs of the processor in one behaviour
ConfOne == 10       \* the confidence 1.0, in model units

\* ---------------------------------------------------------------- inputs
Engines == {"glm-ocr", "marker"}
\* llm_provider: None, a provider without structure_blocks, a provider with
\* structure_blocks whose analyze_context exists / does not exist
Providers == {"None", "basic", "structuring", "structuring-no-analyze"}
Suffixes == {".pdf", ".PDF", ".png"}

T(tok) == <<tok>>
Rat(n, d) == [n |-> n, d |-> d]

\* what one glm_ocr.process call can return
OcrResults ==
    { [text |-> T("a"), confidence |-> 9],
      [text |-> T("b"), confidence |-> 7],
      [text |-> <<>>,   confidence |-> 0],
      [text |-> <<>>,   confidence |-> 7],
      [text |-> T("b"), confidence |-> 0],
      [text |-> T("a"), confidence |-> ConfOne] }
VisualTexts == {<<>>, T("v")}
IntegrationTexts == {T("m"), T("a")}
Pass1Texts == {T("p")}
Pass2Texts == {T("s"), T("a")}
Pass1Tokens == {3}
Pass2Tokens == {4}

BlockType(i) == IF i % 2 = 1 THEN "text" ELSE "gauge"
Block(i) == [id |-> i, bbox |-> i, type |-> BlockType(i)]
\* what extract_layout_blocks can return: 0..MaxBlocks ordered blocks
Layouts == { [i \in 1..n |-> Block(i)] : n \in 0..MaxBlocks }

NoOcr == [text |-> <<>>, confidence |-> 0]
NoFuture == [state |-> "none", text |-> <<>>, confidence |-> 0]
NoResponse == [text |-> <<>>, tokens_used |-> 0]
NoPath == <<0, 0>>
NoResult == [text |-> <<>>, confidence |-> Rat(0, 1), metadata |-> [mode |-> "none"]]

VARIABLES
    ocr_engines, llm_provider,          \* OCRProcessor fields
    pc, mode, suffix,                   \* position of the run, its mode and input
    pipeline_steps, blocks, block_results, idx, tmp_path,
    future_visual, future_ocr, visual_response, glm_result, final_response,
    exc, combined_text, combined_confidence,
    blocks_for_analysis, full_text, pass1_response, pass2_prompt,
    pass2_response, qwen_response,
    result, error,                      \* what the run returned / raised
    files,                              \* crop artifacts on the filesystem
    logs, clock, runs,                  \* logs/ocr, wall clock, runs started
    calls, caught, outcome              \* history: calls issued, calls whose
                                        \* error was caught, per-block outcome

vars == <<ocr_engines, llm_provider, pc, mode, suffix, pipeline_steps, blocks,
          block_results, idx, tmp_path, future_visual, future_ocr,
          visual_response, glm_result, final_response, exc, combined_text,
          combined_confidence,
          blocks_for_analysis, full_text, pass1_response, pass2_prompt,
          pass2_response, qwen_response,
          result, error, files, logs, clock, runs, calls, caught, outcome>>

config == <<ocr_engines, llm_provider>>
fastvars == <<future_visual, future_ocr, visual_response, final_response, exc>>
structvars == <<blocks_for_analysis, full_text, pass1_response, pass2_prompt,
                pass2_response, qwen_response>>
thinkvars == <<blocks, block_results, idx, tmp_path, combined_text,
               combined_confidence, structvars, files, outcome>>
envvars == <<logs, clock>>

\* ------------------------------------------------------- pure functions
\* str.lower() on the suffix
Lower(s) == IF s = ".PDF" THEN ".pdf" ELSE s

RECURSIVE Join(_, _)
\* sep.join(parts)
Join(parts, sep) ==
    IF parts = <<>> THEN <<>>
    ELSE IF Len(parts) = 1 THEN parts[1]
    ELSE parts[1] \o sep \o Join(Tail(parts), sep)

RECURSIVE Sum(_)
Sum(s) == IF s = <<>> THEN 0 ELSE s[1] + Sum(Tail(s))

\* a variant without the filter on empty texts
TextsOfUnfiltered(br) == [i \in 1..Len(br) |-> br[i].text]

\* [b['text'] for b in block_results if b['text']]
TextsOf(br) == LET F == SelectSeq(br, LAMBDA b : b.text # <<>>)
               IN  [i \in 1..Len(F) |-> F[i].text]

\* a variant without the filter on zero confidences
ConfidencesOfAll(br) == [i \in 1..Len(br) |-> br[i].confidence]

\* [b['confidence'] for b in block_results if b['confidence'] > 0]
ConfidencesOf(br) == LET F == SelectSeq(br, LAMBDA b : b.confidence > 0)
                     IN  [i \in 1..Len(F) |-> F[i].confidence]

\* '\n\n'.join(...)
CombinedText(br) == Join(TextsOf(br), T("\n\n"))

\* a variant that forgets the division
MeanSum(confidences) == Rat(Sum(confidences), 1)

\* sum(confidences) / len(confidences) if confidences else 0.0
Mean(confidences) ==
    IF confidences # <<>> THEN Rat(Sum(confidences), Len(confidences))
    ELSE Rat(0, 1)

CombinedConfidence(br) == Mean(ConfidencesOf(br))

\* ------------------------------------------------------------ log_ocr_run
\* the file name is mode + timestamp to the second; open(..., 'w') replaces
\* whatever the file held.  A record is identified by the run that wrote it.
LogFile(m) == <<m, clock>>
LogOcrRun(m) == {l \in logs : l.file # LogFile(m)}
                    \cup {[file |-> LogFile(m), run |-> runs]}

\* --------------------------------------------------------------- Init
Init ==
    /\ ocr_engines \in SUBSET Engines
    /\ llm_provider \in Providers
    /\ pc = "idle"
    /\ mode = "none"
    /\ suffix = ".png"
    /\ pipeline_steps = <<>>
    /\ blocks = <<>>
    /\ block_results = <<>>
    /\ idx = 0
    /\ tmp_path = NoPath
    /\ future_visual = NoFuture
    /\ future_ocr = NoFuture
    /\ visual_response = NoResponse
    /\ glm_result = NoOcr
    /\ final_response = NoResponse
    /\ exc = "none"
    /\ combined_text = <<>>
    /\ combined_confidence = Rat(0, 1)
    /\ blocks_for_analysis = <<>>
    /\ full_text = <<>>
    /\ pass2_response = NoResponse
    /\ pass1_response = NoResponse
    /\ pass2_prompt = <<>>
    /\ qwen_response = NoResponse
    /\ result = NoResult
    /\ error = "none"
    /\ files = {}
    /\ logs = {}
    /\ clock = 0
    /\ runs = 0
    /\ calls = <<>>
    /\ caught = {}
    /\ outcome = <<>>

\* a new run starts with fresh locals; the filesystem and the clock persist
CanStart == pc \in {"idle", "returned", "raised"} /\ runs < MaxRuns

Fresh(m, sfx) ==
    /\ mode' = m
    /\ suffix' = sfx
    /\ runs' = runs + 1
    /\ pipeline_steps' = <<>>
    /\ blocks' = <<>>
    /\ block_results' = <<>>
    /\ idx' = 0
    /\ tmp_path' = NoPath
    /\ visual_response' = NoResponse
    /\ glm_result' = NoOcr
    /\ final_response' = NoResponse
    /\ caught' = {}
    /\ exc' = "none"
    /\ combined_text' = <<>>
    /\ combined_confidence' = Rat(0, 1)
    /\ blocks_for_analysis' = <<>>
    /\ full_text' = <<>>
    /\ pass2_response' = NoResponse
    /\ pass1_response' = NoResponse
    /\ pass2_prompt' = <<>>
    /\ qwen_response' = NoResponse
    /\ result' = NoResult
    /\ outcome' = <<>>
    /\ UNCHANGED <<config, files, envvars>>

Raise(e) == pc' = "raised" /\ error' = e

\* ------------------------------------------------------------ process_fast
\* a variant that forgets the provider check
FastPreconditionNoProvider(engines, provider) ==
    IF "glm-ocr" \notin engines THEN "ValueError" ELSE "ok"

\* the two precondition checks; "ok" when both collaborators are configured
FastPrecondition(engines, provider) ==
    IF "glm-ocr" \notin engines THEN "ValueError"
    ELSE IF provider = "None" THEN "ValueError"
    ELSE "ok"

\* precondition checks, then both units of work are submitted to the pool
StartFast ==
    /\ CanStart
    /\ \E sfx \in Suffixes : Fresh("fast", sfx)
    /\ IF FastPrecondition(ocr_engines, llm_provider) # "ok"
       THEN /\ Raise(FastPrecondition(ocr_engines, llm_provider))
            /\ calls' = <<>>
            /\ future_visual' = NoFuture
            /\ future_ocr' = NoFuture
       ELSE /\ pc' = "fast_await_visual"
            /\ error' = "none"
            /\ calls' = <<"detect_visual_elements", "glm_ocr.process">>
            /\ future_visual' = [NoFuture EXCEPT !.state = "pending"]
            /\ future_ocr' = [NoFuture EXCEPT !.state = "pending"]

\* worker thread running llm_provider.detect_visual_elements(input_path)
VisualThread ==
    /\ future_visual.state = "pending"
    /\ \/ \E t \in VisualTexts :
            future_visual' = [state |-> "ok", text |-> t, confidence |-> 0]
       \/ future_visual' = [NoFuture EXCEPT !.state = "error"]
    /\ UNCHANGED <<config, pc, mode, suffix, pipeline_steps, future_ocr,
                   visual_response, glm_result, final_response, exc, thinkvars,
                   result, error, envvars, runs, calls, caught>>

\* worker thread running glm_ocr.process(input_path, task="text")
OcrThread ==
    /\ future_ocr.state = "pending"
    /\ \/ \E r \in OcrResults :
            future_ocr' = [state |-> "ok", text |-> r.text,
                           confidence |-> r.confidence]
       \/ future_ocr' = [NoFuture EXCEPT !.state = "error"]
    /\ UNCHANGED <<config, pc, mode, suffix, pipeline_steps, future_visual,
                   visual_response, glm_result, final_response, exc, thinkvars,
                   result, error, envvars, runs, calls, caught>>

\* a variant of result() that does not block
DoneAlways(future) == TRUE

\* Future.result() returns (or raises) only once the worker has finished
Done(future) == future.state \in {"ok", "error"}

\* visual_response = future_visual.result()
FastAwaitVisual ==
    /\ pc = "fast_await_visual"
    /\ Done(future_visual)
    /\ IF future_visual.state = "error"
       THEN /\ exc' = "detect_visual_elements"
            /\ pc' = "fast_exit"
            /\ UNCHANGED visual_response
       ELSE /\ visual_response' = [text |-> future_visual.text, tokens_used |-> 0]
            /\ pc' = "fast_await_ocr"
            /\ UNCHANGED exc
    /\ UNCHANGED <<config, mode, suffix, pipeline_steps, future_visual,
                   future_ocr, glm_result, final_response, thinkvars, result,
                   error, envvars, runs, calls, caught>>

\* glm_result = future_ocr.result()
FastAwaitOcr ==
    /\ pc = "fast_await_ocr"
    /\ Done(future_ocr)
    /\ IF future_ocr.state = "error"
       THEN /\ exc' = "glm_ocr.process"
            /\ UNCHANGED glm_result
       ELSE /\ glm_result' = [text |-> future_ocr.text,
                              confidence |-> future_ocr.confidence]
            /\ UNCHANGED exc
    /\ pc' = "fast_exit"
    /\ UNCHANGED <<config, mode, suffix, pipeline_steps, future_visual,
                   future_ocr, visual_response, final_response, thinkvars,
                   result, error, envvars, runs, calls, caught>>

\* leaving the with block: ThreadPoolExecutor.__exit__ waits for both
\* workers, then the pending exception propagates or the stages are recorded
FastExit ==
    /\ pc = "fast_exit"
    /\ Done(future_visual)
    /\ Done(future_ocr)
    /\ IF exc # "none"
       THEN /\ Raise(exc)
            /\ UNCHANGED pipeline_steps
       ELSE /\ pipeline_steps' = pipeline_steps \o <<"qwen3-vl-visual", "glm-ocr">>
            /\ pc' = "fast_integrate"
            /\ UNCHANGED error
    /\ UNCHANGED <<config, mode, suffix, fastvars, glm_result, thinkvars,
                   result, envvars, runs, calls, caught>>

\* a variant that records the integration stage before the call returns
IntegrationStepsAlways(steps, ok) == Append(steps, "qwen3-vl-integration-text")

\* pipeline_steps after the try/except around integrate_results_text_only
IntegrationSteps(steps, ok) ==
    IF ok THEN Append(steps, "qwen3-vl-integration-text") ELSE steps

\* ocr_text after the try/except around integrate_results_text_only
IntegrationText(ok, final_text, glm) == IF ok THEN final_text ELSE glm.text

\* a variant that keeps the merged text as the visual elements
FastResultMergedVisual(ocr_text, confidence, steps, visual) ==
    [text |-> ocr_text,
     confidence |-> Rat(confidence, 1),
     metadata |-> [mode |-> "fast-parallel", pipeline |-> steps,
                   engine |-> "qwen3vl+glm-ocr", visual_elements |-> ocr_text]]

FastResult(ocr_text, confidence, steps, visual) ==
    [text |-> ocr_text,
     confidence |-> Rat(confidence, 1),
     metadata |-> [mode |-> "fast-parallel", pipeline |-> steps,
                   engine |-> "qwen3vl+glm-ocr", visual_elements |-> visual]]

\* integration (failure caught), the result, log_ocr_run and the return
FastIntegrate ==
    /\ pc = "fast_integrate"
    /\ \E ok \in BOOLEAN : \E final_text \in IntegrationTexts :
        /\ ~ok => final_text = T("m")      \* a failed call has no response
        /\ pipeline_steps' = IntegrationSteps(pipeline_steps, ok)
        /\ final_response' = IF ok THEN [text |-> final_text, tokens_used |-> 0]
                             ELSE NoResponse
        /\ caught' = IF ok THEN caught
                      ELSE caught \cup {"integrate_results_text_only"}
        /\ result' = FastResult(IntegrationText(ok, final_text, glm_result),
                                glm_result.confidence,
                                IntegrationSteps(pipeline_steps, ok),
                                visual_response.text)
    /\ calls' = Append(calls, "integrate_results_text_only")
    /\ logs' = LogOcrRun("fast")
    /\ pc' = "returned"
    /\ UNCHANGED <<config, mode, suffix, future_visual, future_ocr,
                   visual_response, exc, glm_result, thinkvars, error, clock,
                   runs>>

\* -------------------------------------------------------- process_thinking
ThinkingPrecondition(engines) ==
    IF "glm-ocr" \notin engines THEN "ValueError" ELSE "ok"

\* a variant that forgets the is_pdf test
UseLayoutAnyInput(engines, sfx) == "marker" \in engines

\* if marker and is_pdf
UseLayout(engines, sfx) == "marker" \in engines /\ Lower(sfx) = ".pdf"

\* a variant that always runs the whole-input OCR
UseFallbackAlways(br) == TRUE

\* a variant that tests the detected blocks instead of the results
UseFallbackOnBlocks(br) == blocks = <<>>

\* if not block_results
UseFallback(br) == br = <<>>

\* a variant that forgets the hasattr probe
HasStructureAny(provider) == provider # "None"

\* if self.llm_provider and hasattr(self.llm_provider, 'structure_blocks')
HasStructure(provider) == provider \in {"structuring", "structuring-no-analyze"}

\* a variant that records a placeholder for the failed block
CaughtBlockPlaceholder(br, block) ==
    Append(br, [block_id |-> block.id, bbox |-> block.bbox, type |-> block.type,
                text |-> <<>>, confidence |-> 0])

\* except Exception around one block: a warning is logged, nothing is recorded
CaughtBlock(br, block) == br

\* LayoutProcessor.save_cropped_block: the artifact has a name of its own
\* (per run and block) and exists once the call has returned
CropPath(run, block) == <<run, block.id>>
SaveCroppedBlock(fs, path) == fs \cup {path}

\* a variant that leaves the artifact behind
UnlinkNoop(fs, path) == fs

\* os.unlink(tmp_path)
Unlink(fs, path) == fs \ {path}

\* history of one block: how its iteration ended and what its OCR call returned
Outcome(status, block_ocr) ==
    [status |-> status, text |-> block_ocr.text,
     confidence |-> block_ocr.confidence]

BlockResult(block, block_ocr) ==
    [block_id |-> block.id, bbox |-> block.bbox, type |-> block.type,
     text |-> block_ocr.text, confidence |-> block_ocr.confidence]

ThinkingResult(text, confidence, steps) ==
    [text |-> text,
     confidence |-> confidence,
     metadata |-> [mode |-> "thinking", pipeline |-> steps,
                   blocks_count |-> Len(blocks), blocks |-> block_results,
                   engine |-> "layout-aware"]]

\* the result, log_ocr_run and the return
ThinkReturn(text, confidence, steps) ==
    /\ result' = ThinkingResult(text, confidence, steps)
    /\ logs' = LogOcrRun("thinking")
    /\ pc' = "returned"
    /\ UNCHANGED <<clock, error>>

\* precondition check and the layout decision
StartThinking ==
    /\ CanStart
    /\ \E sfx \in Suffixes :
        /\ Fresh("thinking", sfx)
        /\ IF ThinkingPrecondition(ocr_engines) # "ok"
           THEN Raise(ThinkingPrecondition(ocr_engines))
           ELSE /\ error' = "none"
                /\ pc' = IF UseLayout(ocr_engines, sfx) THEN "think_layout"
                         ELSE "think_aggregate"
    /\ calls' = <<>>
    /\ future_visual' = NoFuture
    /\ future_ocr' = NoFuture

\* for block in blocks: the next iteration, or the end of the loop
NextBlock(steps) ==
    IF idx < Len(blocks)
    THEN /\ idx' = idx + 1
         /\ pc' = "think_crop"
         /\ pipeline_steps' = steps
    ELSE /\ idx' = idx
         /\ pc' = "think_aggregate"
         /\ pipeline_steps' = Append(steps, "glm-ocr-blocks")

\* LayoutProcessor(marker).extract_layout_blocks(input_path); a failure is
\* caught by the outer except
ThinkLayout ==
    /\ pc = "think_layout"
    /\ calls' = Append(calls, "extract_layout_blocks")
    /\ \/ \E bs \in Layouts :
            /\ blocks' = bs
            /\ IF bs # <<>>
               THEN /\ idx' = 1
                    /\ pc' = "think_crop"
               ELSE /\ pc' = "think_aggregate"
                    /\ UNCHANGED idx
            /\ pipeline_steps' = Append(pipeline_steps, "marker-layout")
            /\ UNCHANGED caught
       \/ /\ pc' = "think_aggregate"
          /\ caught' = caught \cup {"extract_layout_blocks"}
          /\ UNCHANGED <<blocks, idx, pipeline_steps>>
    /\ UNCHANGED <<config, mode, suffix, fastvars, glm_result, block_results,
                   tmp_path, combined_text, combined_confidence, structvars,
                   files, outcome, result, error, envvars, runs>>

\* tmp_path = layout_proc.save_cropped_block(input_path, block['bbox'])
ThinkCrop ==
    /\ pc = "think_crop"
    /\ calls' = Append(calls, "save_cropped_block")
    /\ \/ /\ tmp_path' = CropPath(runs, blocks[idx])
          /\ files' = SaveCroppedBlock(files, CropPath(runs, blocks[idx]))
          /\ pc' = "think_block_ocr"
          /\ UNCHANGED <<block_results, outcome, idx, pipeline_steps, caught>>
       \/ /\ block_results' = CaughtBlock(block_results, blocks[idx])
          /\ outcome' = Append(outcome, Outcome("crop_failed", NoOcr))
          /\ caught' = caught \cup {"save_cropped_block"}
          /\ NextBlock(pipeline_steps)
          /\ UNCHANGED <<tmp_path, files>>
    /\ UNCHANGED <<config, mode, suffix, fastvars, glm_result, blocks,
                   combined_text, combined_confidence, structvars, result,
                   error, envvars, runs>>

\* block_ocr = glm_ocr.process(tmp_path, task="text") and the append
ThinkBlockOcr ==
    /\ pc = "think_block_ocr"
    /\ calls' = Append(calls, "glm_ocr.process(block)")
    /\ \/ \E r \in OcrResults :
            /\ block_results' = Append(block_results, BlockResult(blocks[idx], r))
            /\ outcome' = Append(outcome, Outcome("ok", r))
            /\ UNCHANGED <<exc, caught>>
       \/ /\ exc' = "block"
          /\ outcome' = Append(outcome, Outcome("ocr_failed", NoOcr))
          /\ caught' = caught \cup {"glm_ocr.process(block)"}
          /\ UNCHANGED block_results
    /\ pc' = "think_finally"
    /\ UNCHANGED <<config, mode, suffix, pipeline_steps, future_visual,
                   future_ocr, visual_response, final_response, glm_result,
                   blocks, idx, tmp_path, combined_text, combined_confidence,
                   structvars, files, result, error, envvars, runs>>

\* finally: if os.path.exists(tmp_path): os.unlink(tmp_path); then the
\* except clause of the block when the OCR call raised
ThinkFinally ==
    /\ pc = "think_finally"
    /\ files' = IF tmp_path \in files THEN Unlink(files, tmp_path) ELSE files
    /\ block_results' = IF exc = "block"
                        THEN CaughtBlock(block_results, blocks[idx])
                        ELSE block_results
    /\ exc' = "none"
    /\ NextBlock(pipeline_steps)
    /\ UNCHANGED <<config, mode, suffix, future_visual, future_ocr,
                   visual_response, final_response, glm_result, blocks,
                   tmp_path, combined_text, combined_confidence, structvars,
                   outcome, result, error, envvars, runs, calls, caught>>

\* the fallback / aggregation step, lines 159-168, and the capability probe
ThinkAggregate ==
    /\ pc = "think_aggregate"
    /\ IF UseFallback(block_results)
       THEN /\ calls' = Append(calls, "glm_ocr.process")
            /\ \/ \E r \in OcrResults :
                    /\ glm_result' = r
                    /\ pipeline_steps' = Append(pipeline_steps, "glm-ocr-fallback")
                    /\ combined_text' = r.text
                    /\ combined_confidence' = Rat(r.confidence, 1)
                    /\ IF HasStructure(llm_provider)
                       THEN /\ pc' = "think_structure"
                            /\ UNCHANGED <<result, error, envvars>>
                       ELSE ThinkReturn(r.text, Rat(r.confidence, 1),
                                Append(pipeline_steps, "glm-ocr-fallback"))
               \/ /\ Raise("glm_ocr.process")
                  /\ UNCHANGED <<glm_result, pipeline_steps, combined_text,
                                 combined_confidence, result, envvars>>
       ELSE /\ combined_text' = CombinedText(block_results)
            /\ combined_confidence' = CombinedConfidence(block_results)
            /\ IF HasStructure(llm_provider)
               THEN /\ pc' = "think_structure"
                    /\ UNCHANGED <<result, error, envvars>>
               ELSE ThinkReturn(CombinedText(block_results),
                                CombinedConfidence(block_results), pipeline_steps)
            /\ UNCHANGED <<glm_result, pipeline_steps, calls>>
    /\ UNCHANGED <<config, mode, suffix, fastvars, blocks, block_results, idx,
                   tmp_path, structvars, files, outcome, runs, caught>>

\* ------------------------------------------ Qwen3VLProvider.structure_blocks
\* block_results if block_results else [{'id': 0, 'text': combined_text, ...}]
BlocksForAnalysis(br, text) ==
    IF br # <<>> THEN br ELSE <<[id |-> 0, text |-> text, type |-> "full"]>>

\* "\n".join([b.get('text', '') for b in blocks if b.get('text')])
FullText(bs) == Join(TextsOf(bs), T("\n"))

\* a variant whose prompt leaves pass 1's output out
Pass2PromptNoEmbed(pass1_text) == T("Provide EXPERT-LEVEL analysis")
                                      \o T("## 1. DATA VALIDATION ...")

\* the f-string of pass 2: fixed wording around {pass1_response.text}
Pass2Prompt(pass1_text) == T("Provide EXPERT-LEVEL analysis") \o pass1_text
                               \o T("## 1. DATA VALIDATION ...")

\* a variant that reports the tokens of the last call only
QwenResponseLastTokens(pass1, pass2) ==
    [text |-> pass2.text,
     tokens_used |-> pass2.tokens_used,
     metadata |-> [mode |-> "two-pass-thinking",
                   pass1_tokens |-> pass1.tokens_used,
                   pass2_tokens |-> pass2.tokens_used,
                   pass1_extraction |-> pass1.text]]

QwenResponse(pass1, pass2) ==
    [text |-> pass2.text,
     tokens_used |-> pass1.tokens_used + pass2.tokens_used,
     metadata |-> [mode |-> "two-pass-thinking",
                   pass1_tokens |-> pass1.tokens_used,
                   pass2_tokens |-> pass2.tokens_used,
                   pass1_extraction |-> pass1.text]]

\* structure_blocks up to the return of self.analyze_context(...); any error
\* is caught by process_thinking, which keeps combined_text and returns
StructPass1 ==
    /\ pc = "think_structure"
    /\ blocks_for_analysis' = BlocksForAnalysis(block_results, combined_text)
    /\ full_text' = FullText(BlocksForAnalysis(block_results, combined_text))
    /\ IF llm_provider = "structuring-no-analyze"
       THEN /\ calls' = Append(calls, "structure_blocks")
            /\ caught' = caught \cup {"structure_blocks"}
            /\ ThinkReturn(combined_text, combined_confidence, pipeline_steps)
            /\ UNCHANGED pass1_response
       ELSE /\ calls' = calls \o <<"structure_blocks", "analyze_context">>
            /\ \/ \E t \in Pass1Texts : \E n \in Pass1Tokens :
                    /\ pass1_response' = [text |-> t, tokens_used |-> n]
                    /\ pc' = "think_pass2"
                    /\ UNCHANGED <<result, error, envvars, caught>>
               \/ /\ ThinkReturn(combined_text, combined_confidence, pipeline_steps)
                  /\ caught' = caught \cup {"structure_blocks"}
                  /\ UNCHANGED pass1_response
    /\ UNCHANGED <<config, mode, suffix, pipeline_steps, fastvars, glm_result,
                   blocks, block_results, idx, tmp_path, combined_text,
                   combined_confidence, pass2_prompt, pass2_response,
                   qwen_response, files, outcome, runs>>

\* pass 2: self.generate(pass2_prompt), the LLMResponse, and back in
\* process_thinking the stage name, the new text, the result and the return
StructPass2 ==
    /\ pc = "think_pass2"
    /\ pass2_prompt' = Pass2Prompt(pass1_response.text)
    /\ calls' = Append(calls, "generate")
    /\ \/ \E t \in Pass2Texts : \E n \in Pass2Tokens :
            LET pass2 == [text |-> t, tokens_used |-> n]
                resp == QwenResponse(pass1_response, pass2)
            IN  /\ pass2_response' = pass2
                /\ qwen_response' = resp
                /\ pipeline_steps' = Append(pipeline_steps, "qwen3-vl-structure")
                /\ combined_text' = resp.text
                /\ ThinkReturn(resp.text, combined_confidence,
                               Append(pipeline_steps, "qwen3-vl-structure"))
                /\ UNCHANGED caught
       \/ /\ ThinkReturn(combined_text, combined_confidence, pipeline_steps)
          /\ caught' = caught \cup {"structure_blocks"}
          /\ UNCHANGED <<pass2_response, qwen_response, pipeline_steps,
                         combined_text>>
    /\ UNCHANGED <<config, mode, suffix, fastvars, glm_result, blocks,
                   block_results, idx, tmp_path, combined_confidence,
                   blocks_for_analysis, full_text, pass1_response, files,
                   outcome, runs>>

\* ------------------------------------------------------------ environment
\* a second passes on the wall clock between two runs (at most one second
\* per run started, which keeps the clock finite)
Tick ==
    /\ pc \in {"returned", "raised"}
    /\ clock < runs
    /\ clock' = clock + 1
    /\ UNCHANGED <<config, pc, mode, suffix, pipeline_steps, fastvars,
                   glm_result, thinkvars, result, error, logs, runs, calls,
                   caught>>

Next ==
    \/ StartFast
    \/ VisualThread
    \/ OcrThread
    \/ FastAwaitVisual
    \/ FastAwaitOcr
    \/ FastExit
    \/ FastIntegrate
    \/ StartThinking
    \/ ThinkLayout
    \/ ThinkCrop
    \/ ThinkBlockOcr
    \/ ThinkFinally
    \/ ThinkAggregate
    \/ StructPass1
    \/ StructPass2
    \/ Tick

Spec == Init /\ [][Next]_vars

\* ======================================================== the claims
Returned == pc = "returned"
Raised == pc = "raised"
Pipeline == result.metadata.pipeline
Has(seq, x) == \E i \in 1..Len(seq) : seq[i] = x
Called(name) == Has(calls, name)
\* the call was issued and its error was not caught: it returned
Succeeded(name) == Called(name) /\ name \notin caught
RatEq(a, b) == a.n * b.d = b.n * a.d
FirstCall(name) == CHOOSE i \in 1..Len(calls) :
                       calls[i] = name /\ \A j \in 1..(i - 1) : calls[j] # name
Position(seq, x) == CHOOSE i \in 1..Len(seq) : seq[i] = x

\* the collaborator the run requires is not configured
MissingRequired ==
    \/ mode = "fast" /\ ("glm-ocr" \notin ocr_engines \/ llm_provider = "None")
    \/ mode = "thinking" /\ "glm-ocr" \notin ocr_engines

\* C1: a run ends in one of three ways only: a complete result, a
\* configuration error because a required collaborator is absent, or the
\* error of the whole-input OCR call; no other collaborator's failure escapes.
C1_ThreeEndings ==
    /\ Returned => /\ result.metadata.mode \in {"fast-parallel", "thinking"}
                   /\ "pipeline" \in DOMAIN result.metadata
    /\ Raised => \/ error = "ValueError" /\ MissingRequired
                 \/ error = "glm_ocr.process" /\ Called("glm_ocr.process")

\* C2: with a required collaborator absent the run fails with the
\* configuration error, no collaborator call has been issued and the run
\* wrote no log record.
C2_ConfigErrorBeforeAnyCall ==
    MissingRequired =>
        /\ Raised
        /\ error = "ValueError"
        /\ calls = <<>>
        /\ \A l \in logs : l.run # runs

\* a fast run refused for its missing provider, after an earlier run logged
C2_Witness ==
    /\ Raised /\ mode = "fast" /\ error = "ValueError"
    /\ "glm-ocr" \in ocr_engines /\ llm_provider = "None"
    /\ logs # {}

\* C3: a fast result's pipeline is visual, OCR, then the integration stage
\* exactly when integration succeeded; its text is the integration text on
\* success and the raw OCR text on failure.
C3_FastPipelineAndText ==
    (Returned /\ mode = "fast") =>
        IF Succeeded("integrate_results_text_only")
        THEN /\ Pipeline = <<"qwen3-vl-visual", "glm-ocr", "qwen3-vl-integration-text">>
             /\ result.text = final_response.text
        ELSE /\ Pipeline = <<"qwen3-vl-visual", "glm-ocr">>
             /\ result.text = glm_result.text

\* integration failed and the result carries the raw OCR text
C3_Witness ==
    /\ Returned /\ mode = "fast"
    /\ "integrate_results_text_only" \in caught
    /\ result.text = T("b")

\* C4: every returned confidence is between 0 and 1.
C4_ConfidenceBounded ==
    Returned => /\ result.confidence.d > 0
                /\ 0 <= result.confidence.n
                /\ result.confidence.n <= result.confidence.d * ConfOne

\* a thinking result averaged over two blocks of positive confidence
C4_Witness ==
    /\ Returned /\ mode = "thinking"
    /\ Len(ConfidencesOf(result.metadata.blocks)) >= 2
    /\ result.confidence.n > ConfOne

\* the call whose execution a stage name stands for
StageCall(stage) ==
    CASE stage = "qwen3-vl-visual" -> "detect_visual_elements"
      [] stage = "glm-ocr" -> "glm_ocr.process"
      [] stage = "qwen3-vl-integration-text" -> "integrate_results_text_only"
      [] stage = "marker-layout" -> "extract_layout_blocks"
      [] stage = "glm-ocr-blocks" -> "glm_ocr.process(block)"
      [] stage = "glm-ocr-fallback" -> "glm_ocr.process"
      [] stage = "qwen3-vl-structure" -> "structure_blocks"
Stages == {"qwen3-vl-visual", "glm-ocr", "qwen3-vl-integration-text",
           "marker-layout", "glm-ocr-blocks", "glm-ocr-fallback",
           "qwen3-vl-structure"}
StagesOf(m) == IF m = "fast"
               THEN {"qwen3-vl-visual", "glm-ocr", "qwen3-vl-integration-text"}
               ELSE Stages \ {"qwen3-vl-visual", "glm-ocr", "qwen3-vl-integration-text"}

\* C5: the pipeline of a result names a stage only if the stage ran (its
\* call was made), names every stage that ran to completion, and lists the
\* stages in the order they ran.
C5_PipelineIsStagesRun ==
    Returned =>
        /\ \A i \in 1..Len(Pipeline) : Called(StageCall(Pipeline[i]))
        /\ \A st \in StagesOf(mode) :
               Succeeded(StageCall(st)) => Has(Pipeline, st)
        /\ \A i, j \in 1..Len(Pipeline) :
               (i < j /\ Called(StageCall(Pipeline[i])) /\ Called(StageCall(Pipeline[j])))
                   => FirstCall(StageCall(Pipeline[i])) < FirstCall(StageCall(Pipeline[j]))

\* the three situations in which no per-block result exists
NoBlockResults ==
    \/ "marker" \notin ocr_engines
    \/ Lower(suffix) # ".pdf"
    \/ result.metadata.blocks = <<>>

\* C6 as stated: without layout engine, for a non-pdf input or with no block
\* surviving, the pipeline has the fallback stage and the returned text is
\* the text of the whole-input OCR call.
C6_FallbackTextIsOcrText ==
    (Returned /\ mode = "thinking" /\ NoBlockResults) =>
        /\ Has(Pipeline, "glm-ocr-fallback")
        /\ result.text = glm_result.text

\* C6 as amended: ... the returned text is the text of the whole-input OCR
\* call unless the structuring stage succeeded, and then it is the
\* structuring output.
C6_FallbackTextUnlessStructured ==
    (Returned /\ mode = "thinking" /\ NoBlockResults) =>
        /\ Has(Pipeline, "glm-ocr-fallback")
        /\ Called("glm_ocr.process")
        /\ result.text = IF Has(Pipeline, "qwen3-vl-structure")
                         THEN qwen_response.text
                         ELSE glm_result.text

\* blocks were detected, none survived, the fallback text was returned
C6_Witness ==
    /\ Returned /\ mode = "thinking"
    /\ blocks # <<>> /\ result.metadata.blocks = <<>>
    /\ Has(Pipeline, "glm-ocr-fallback")
    /\ result.text = T("a") /\ glm_result.text = T("a")
    /\ ~Has(Pipeline, "qwen3-vl-structure")

\* positions of the layout blocks whose crop and OCR both succeeded
Survivors == SelectSeq([i \in 1..Len(outcome) |-> i],
                       LAMBDA i : outcome[i].status = "ok")

\* the positive confidences the OCR calls of the surviving blocks returned
SurvivorConfidences ==
    SelectSeq([k \in 1..Len(Survivors) |-> outcome[Survivors[k]].confidence],
              LAMBDA c : c > 0)

C8_CropRemoved ==
    /\ Cardinality(files) <= 1
    /\ files # {} => /\ pc \in {"think_block_ocr", "think_finally"}
                     /\ files = {tmp_path}

\* the second block is about to be cropped after the first one's OCR failed
C8_Witness ==
    /\ pc = "think_crop" /\ idx = 2
    /\ Len(outcome) = 1 /\ outcome[1].status = "ocr_failed"
    /\ tmp_path # NoPath /\ files = {}

\* confidences > 0 of the blocks with non-empty text
TextConfidences(br) ==
    LET F == SelectSeq(br, LAMBDA b : b.text # <<>> /\ b.confidence > 0)
    IN  [i \in 1..Len(F) |-> F[i].confidence]

\* C9: with per-block results the confidence is the mean of the positive
\* confidences of the blocks that produced non-empty text, 0 if there is none.
C9_MeanOverTextBlocks ==
    (Returned /\ mode = "thinking" /\ result.metadata.blocks # <<>>) =>
        IF TextConfidences(result.metadata.blocks) = <<>>
        THEN result.confidence.n = 0
        ELSE RatEq(result.confidence,
                   Rat(Sum(TextConfidences(result.metadata.blocks)),
                       Len(TextConfidences(result.metadata.blocks))))

RECURSIVE ExpectedText(_)
\* the texts of the first n layout blocks, failed and empty ones left out,
\* a blank line between two texts
ExpectedText(n) ==
    IF n = 0 THEN <<>>
    ELSE IF outcome[n].status # "ok" \/ outcome[n].text = <<>>
         THEN ExpectedText(n - 1)
    ELSE IF ExpectedText(n - 1) = <<>> THEN outcome[n].text
    ELSE ExpectedText(n - 1) \o <<"\n\n">> \o outcome[n].text

\* C10: with per-block results the combined text is the non-empty block
\* texts in layout order with a blank line between them, and the results are
\* in the order of the layout blocks.
C10_CombinedTextInOrder ==
    /\ \A i, j \in 1..Len(block_results) :
           i < j => block_results[i].block_id < block_results[j].block_id
    /\ (mode = "thinking" /\ block_results # <<>>
            /\ pc \in {"think_structure", "think_pass2", "returned"}) =>
        /\ ~Has(pipeline_steps, "qwen3-vl-structure") =>
               combined_text = ExpectedText(Len(outcome))
        /\ (Returned /\ ~Has(Pipeline, "qwen3-vl-structure")) =>
               result.text = ExpectedText(Len(outcome))

\* two blocks read in order, both texts kept
C10_Witness ==
    /\ Returned /\ mode = "thinking"
    /\ Len(result.metadata.blocks) = 2
    /\ result.text = <<"b", "\n\n", "a">>

\* structure_blocks has returned its response to process_thinking
Structured == Has(pipeline_steps, "qwen3-vl-structure")

\* C11: the response of structure_blocks has tokens_used = pass 1's tokens +
\* pass 2's tokens, the text of pass 2 only, and metadata that keeps pass 1's
\* raw text and each pass's own token count.
C11_TwoPassResponse ==
    Structured =>
        /\ qwen_response.tokens_used
               = pass1_response.tokens_used + pass2_response.tokens_used
        /\ qwen_response.text = pass2_response.text
        /\ qwen_response.metadata.pass1_extraction = pass1_response.text
        /\ qwen_response.metadata.pass1_tokens = pass1_response.tokens_used
        /\ qwen_response.metadata.pass2_tokens = pass2_response.tokens_used

\* both passes returned, with different token counts and different texts
C11_Witness ==
    /\ Returned /\ Structured
    /\ pass1_response.tokens_used > 0 /\ pass2_response.tokens_used > 0
    /\ pass1_response.tokens_used # pass2_response.tokens_used
    /\ pass1_response.text # pass2_response.text
    /\ result.text = pass2_response.text

\* a '.pdf' input, a layout engine, two blocks (text, gauge) read with
\* confidences 0.9 and 0.0
TwoBlockScenario ==
    /\ Returned /\ mode = "thinking"
    /\ "marker" \in ocr_engines /\ Lower(suffix) = ".pdf"
    /\ Len(blocks) = 2 /\ Len(outcome) = 2
    /\ blocks[1].type = "text" /\ blocks[2].type = "gauge"
    /\ outcome[1].status = "ok" /\ outcome[1].confidence = 9
    /\ outcome[2].status = "ok" /\ outcome[2].confidence = 0

BlockPipeline == <<"marker-layout", "glm-ocr-blocks">>

\* C12 as stated: in that scenario the confidence is 0.9 and the pipeline is
\* layout, block OCR, then the structuring stage whenever the provider
\* exposes structure_blocks.
C12_ScenarioPipeline ==
    TwoBlockScenario =>
        /\ RatEq(result.confidence, Rat(9, 1))
        /\ Pipeline = IF HasStructure(llm_provider)
                      THEN Append(BlockPipeline, "qwen3-vl-structure")
                      ELSE BlockPipeline

\* C12 as amended: ... then the structuring stage whenever the provider
\* exposes structure_blocks and the structure_blocks call succeeded.
C12_ScenarioPipelineOnSuccess ==
    TwoBlockScenario =>
        /\ RatEq(result.confidence, Rat(9, 1))
        /\ Pipeline = IF HasStructure(llm_provider) /\ Succeeded("structure_blocks")
                      THEN Append(BlockPipeline, "qwen3-vl-structure")
                      ELSE BlockPipeline

\* the scenario with a provider whose structure_blocks failed
C12_Witness ==
    /\ TwoBlockScenario
    /\ HasStructure(llm_provider)
    /\ "structure_blocks" \in caught
    /\ Pipeline = BlockPipeline

\* C13: a returning run adds exactly one record to the log directory and no
\* step overwrites or removes the record of an earlier run.
C13_OwnFilePerRun ==
    [][ /\ \A l \in logs : l \in logs'
        /\ (pc # "returned" /\ pc' = "returned")
               => Cardinality(logs') = Cardinality(logs) + 1 ]_vars

\* a worker of the pool has been submitted and has not finished
Pending(future) == future.state = "pending"

\* C14: only the two units of process_fast are ever scheduled, and the
\* integration call is issued and the run returns only when both have
\* completed.
C14_JoinBeforeIntegration ==
    /\ (Pending(future_visual) \/ Pending(future_ocr)) =>
           /\ mode = "fast"
           /\ calls = <<"detect_visual_elements", "glm_ocr.process">>
           /\ pc \in {"fast_await_visual", "fast_await_ocr", "fast_exit"}
    /\ (mode = "fast" /\ (Called("integrate_results_text_only") \/ Returned
                              \/ pc = "fast_integrate")) =>
           /\ Done(future_visual)
           /\ Done(future_ocr)

\* the OCR worker finished first and the run is still waiting for the other
C14_Witness ==
    /\ mode = "fast" /\ pc = "fast_await_visual"
    /\ future_ocr.state = "ok" /\ Pending(future_visual)
    /\ ~Called("integrate_results_text_only")

\* C15: a fast result carries the confidence the OCR call returned and the
\* raw text detect_visual_elements returned, whatever integration did.
C15_FastConfidenceAndVisual ==
    (Returned /\ mode = "fast") =>
        /\ result.confidence = Rat(future_ocr.confidence, 1)
        /\ result.metadata.visual_elements = future_visual.text

\* integration succeeded and replaced the text, nothing else
C15_Witness ==
    /\ Returned /\ mode = "fast"
    /\ Succeeded("integrate_results_text_only")
    /\ result.text = T("m")
    /\ result.metadata.visual_elements = T("v")
    /\ result.confidence = Rat(7, 1)

\* C16: extract_layout_blocks and save_cropped_block are called only in a
\* thinking run with the 'marker' engine configured and a '.pdf' suffix in
\* any letter case, and a crop is made only after the layout was extracted.
C16_LayoutOnlyForPdf ==
    /\ (Called("extract_layout_blocks") \/ Called("save_cropped_block")) =>
           /\ mode = "thinking"
           /\ "marker" \in ocr_engines
           /\ suffix \in {".pdf", ".PDF"}
    /\ Called("save_cropped_block") =>
           /\ Succeeded("extract_layout_blocks")
           /\ FirstCall("extract_layout_blocks") < FirstCall("save_cropped_block")

\* an upper-case suffix: layout and crop were both called
C16_Witness ==
    /\ suffix = ".PDF"
    /\ Called("extract_layout_blocks")
    /\ Called("save_cropped_block")

CountCalls(name) == Cardinality({i \in 1..Len(calls) : calls[i] = name})

\* no layout block gave a non-empty text (layout skipped or failed, no
\* blocks, every block failed, or every block read as empty text)
NoUsableText ==
    \A i \in 1..Len(outcome) :
        outcome[i].status # "ok" \/ outcome[i].text = <<>>

\* C17: whenever the layout path gave no block with usable text, including
\* blocks read successfully as empty text, the whole-input OCR ran as the
\* single fallback stage.
C17_FallbackWithoutUsableText ==
    (Returned /\ mode = "thinking" /\ NoUsableText) =>
        /\ CountCalls("glm_ocr.process") = 1
        /\ Has(Pipeline, "glm-ocr-fallback")

\* text and confidence as they stood before the structuring stage
PriorText == IF block_results = <<>> THEN glm_result.text
             ELSE ExpectedText(Len(outcome))
PriorConfidence ==
    IF block_results = <<>> THEN Rat(glm_result.confidence, 1)
    ELSE IF SurvivorConfidences = <<>> THEN Rat(0, 1)
    ELSE Rat(Sum(SurvivorConfidences), Len(SurvivorConfidences))

\* C18: structure_blocks is called only for a provider that exposes it, with
\* the block results or one synthetic full-text block; the result text is
\* its output on success and the prior combined text on failure; the
\* confidence is the prior one either way and the run never raises.
C18_StructuringStage ==
    /\ Called("structure_blocks") =>
           /\ mode = "thinking"
           /\ llm_provider \in {"structuring", "structuring-no-analyze"}
           /\ blocks_for_analysis =
                  IF block_results # <<>> THEN block_results
                  ELSE <<[id |-> 0, text |-> glm_result.text, type |-> "full"]>>
           /\ ~Raised
    /\ (Returned /\ mode = "thinking") =>
           /\ llm_provider \in {"None", "basic"} => ~Called("structure_blocks")
           /\ Called("structure_blocks") =>
                  result.text = IF Succeeded("structure_blocks")
                                THEN pass2_response.text
                                ELSE PriorText
           /\ RatEq(result.confidence, PriorConfidence)

\* pass 2 failed after two blocks were read: the joined block text is kept
C18_Witness ==
    /\ Returned /\ mode = "thinking"
    /\ Called("generate") /\ "structure_blocks" \in caught
    /\ Len(block_results) = 2
    /\ result.text = <<"a", "\n\n", "b">>
    /\ result.confidence = Rat(16, 2)

\* the prompt has the text inside it, wording before and after
Embeds(prompt, text) ==
    \E i \in 1..(Len(prompt) - Len(text) - 1) :
        SubSeq(prompt, i + 1, i + Len(text)) = text

\* C19: generate is called only after analyze_context has returned, with a
\* prompt that embeds pass 1's whole text; when pass 1 fails or the provider
\* has no analyze_context there is no pass 2, no other operation is called
\* in its place, and process_thinking receives the error.
C19_Pass2AfterPass1 ==
    /\ Called("generate") =>
           /\ Called("analyze_context")
           /\ FirstCall("analyze_context") < FirstCall("generate")
           /\ pass1_response # NoResponse
           /\ Embeds(pass2_prompt, pass1_response.text)
    /\ llm_provider = "structuring-no-analyze" =>
           ~Called("analyze_context") /\ ~Called("generate")
    /\ mode = "thinking" =>
           /\ ~Called("detect_visual_elements")
           /\ ~Called("integrate_results_text_only")
    /\ (Returned /\ Called("structure_blocks") /\ ~Called("generate")) =>
           /\ "structure_blocks" \in caught
           /\ ~Structured
           /\ pass2_prompt = <<>>

\* pass 2 was called with pass 1's text between the fixed wording
C19_Witness ==
    /\ Called("generate")
    /\ Len(pass2_prompt) = 3
    /\ pass2_prompt[2] = "p" /\ pass1_response.text = T("p")

\* C20: a thinking result has the fallback stage exactly when it has no
\* block results; the whole-input OCR is called at most once and after every
\* layout, crop and per-block OCR call; blocks_count >= number of results.
C20_FallbackIffNoBlocks ==
    /\ (Returned /\ mode = "thinking") =>
           /\ Has(Pipeline, "glm-ocr-fallback") <=> result.metadata.blocks = <<>>
           /\ result.metadata.blocks_count >= Len(result.metadata.blocks)
    /\ mode = "thinking" =>
           /\ CountCalls("glm_ocr.process") <= 1
           /\ \A i, j \in 1..Len(calls) :
                  (/\ calls[i] = "glm_ocr.process"
                   /\ calls[j] \in {"extract_layout_blocks", "save_cropped_block",
                                    "glm_ocr.process(block)"}) => j < i

\* two blocks detected, one survived: no fallback, blocks_count exceeds it
C20_Witness ==
    /\ Returned /\ mode = "thinking"
    /\ result.metadata.blocks_count = 2
    /\ Len(result.metadata.blocks) = 1
    /\ ~Has(Pipeline, "glm-ocr-fallback")

====
